---- MODULE Spec2Model ----
(***************************************************************************)
(* Model of apps/backend/runners/ai_analyzer/claude_client.py:             *)
(* ClaudeAnalysisClient, its construction (credential check), and          *)
(* run_analysis_query with the permission descriptor file it writes and    *)
(* removes, the scoped agent session, and _collect_response.               *)
(*                                                                         *)
(* Text is a sequence of characters, so that concatenation (+=) is \o.     *)
(* A call of run_analysis_query is a task; pc[c] names the statement the   *)
(* task executes next.  The statements that await (session open, prompt    *)
(* submission, each streamed message, session close) are the suspension    *)
(* points at which the task can be cancelled.                              *)
(***************************************************************************)
EXTENDS Naturals, Sequences, FiniteSets, TLC

\* ---------------------------------------------------------------- bounds
NumCalls == 2        \* calls of run_analysis_query on the client object
MaxMsgs == 2         \* messages of a reply stream (SpecSingle, SpecCollect)
MaxItems == 2        \* content items of an assistant message (SpecCollect)

Calls == 1..NumCalls

\* ---------------------------------------------------------------- inputs
Dirs == {"/repo", "/other"}
Languages == {"en", "ko", "fr", "xx", ""}

Texts == {<<"a">>, <<"b", "c">>}

TextBlock(t) == [kind |-> "TextBlock", text |-> t]
ToolUseBlock == [kind |-> "ToolUseBlock"]
Items == {TextBlock(t) : t \in Texts} \cup {ToolUseBlock}

SeqsUpTo(S, n) == UNION {[1..k -> S] : k \in 0..n}

AssistantMessage(content) == [type |-> "AssistantMessage", content |-> content]
UserMessage == [type |-> "UserMessage", content |-> <<TextBlock(<<"a">>)>>]
ResultMessage == [type |-> "ResultMessage"]

\* Messages the agent can stream, assistant contents up to n items.
Messages(n) ==
    {AssistantMessage(s) : s \in SeqsUpTo(Items, n)} \cup {UserMessage, ResultMessage}

\* The messages streamed to a single call with every kind of failure.
StreamMessages ==
    { AssistantMessage(<<TextBlock(<<"a">>), ToolUseBlock>>),
      AssistantMessage(<<TextBlock(<<"b", "c">>)>>),
      UserMessage }

\* The reply every call receives (or a prefix of it) where calls overlap.
OverlapReply == << AssistantMessage(<<TextBlock(<<"a">>), ToolUseBlock>>) >>
OverlapMessages == {OverlapReply[i] : i \in 1..Len(OverlapReply)}

\* Errors the collaborators raise.
WriteErrors == {"PermissionError"}
DumpErrors == {"OSError"}
ConstructErrors == {"ModelResolveError"}
OpenErrors == {"CLINotFoundError"}
QueryErrors == {"CLIConnectionError"}
StreamErrors == {"ProcessError", "MaxTurnsError"}
CancelledError == "CancelledError"

\* ---------------------------------------------------------------- program constants
MAX_TURNS == 50
DEFAULT_MODEL == "sonnet"
ALLOWED_TOOLS == <<"Read", "Glob", "Grep">>
LANGUAGE_NAMES == [en |-> "English", ko |-> "Korean", fr |-> "French"]

\* The settings dictionary of _create_settings_file.
Settings ==
    [ sandbox |-> [enabled |-> TRUE, autoAllowBashIfSandboxed |-> TRUE],
      permissions |->
        [ defaultMode |-> "acceptEdits",
          allow |-> <<"Read(./**)", "Glob(./**)", "Grep(./**)">> ] ]

\* json.dump(settings, f, indent=2): the top-level keys in insertion order,
\* each with its serialized value.
JsonDump(s) ==
    << <<"sandbox", s.sandbox>>, <<"permissions", s.permissions>> >>

\* ---------------------------------------------------------------- state
VARIABLES
    sdkAvailable,   \* CLAUDE_SDK_AVAILABLE
    tokenPresent,   \* whether require_auth_token finds a credential
    object,         \* the ClaudeAnalysisClient: [state, project_dir, language, error]
    files,          \* per directory: the descriptor file .claude_ai_analyzer_settings.json
    pc,             \* per call: the statement executed next
    sdkClient,      \* per call: the ClaudeSDKClient (options) built by _create_client
    sessionOpen,    \* per call: inside the `async with client` block
    response_text,  \* per call: the accumulator of _collect_response
    received,       \* per call: the messages the stream has yielded (history)
    pending,        \* per call: what the call is about to return or raise
    outcome,        \* per call: what the call returned or raised
    raised,         \* per call: the errors raised in the call, and where, in order (history)
    steps,          \* per call: the steps completed, in order (history)
    deletedBy       \* the call whose cleanup last deleted the descriptor (0: none)

vars == << sdkAvailable, tokenPresent, object, files, pc, sdkClient, sessionOpen,
           response_text, received, pending, outcome, raised, steps, deletedBy >>

envVars == << sdkAvailable, tokenPresent >>

NoFile == [exists |-> FALSE, content |-> <<>>]
File(content) == [exists |-> TRUE, content |-> content]

NoObject == [state |-> "none", project_dir |-> "", language |-> "", error |-> ""]

None == [kind |-> "none", val |-> <<>>]
Return(text) == [kind |-> "return", val |-> text]
Raise(error) == [kind |-> "raise", val |-> <<error>>]

RaisedAt(where, error) == [at |-> where, error |-> error]

NoClient == [built |-> FALSE]

\* settings_file = self.project_dir / ".claude_ai_analyzer_settings.json"
SettingsDir == object.project_dir
Exists == files[SettingsDir].exists

\* ---------------------------------------------------------------- helpers
Set(f, c, v) == [f EXCEPT ![c] = v]
Log(c, step) == steps' = [steps EXCEPT ![c] = Append(@, step)]
Throw(c, where, error) == raised' = [raised EXCEPT ![c] = Append(@, RaisedAt(where, error))]

\* A check that never raises.
ValidateNothing == TRUE

\* _validate_oauth_token: require_auth_token() returns (TRUE) or raises ValueError.
ValidateOauthToken == tokenPresent

\* __init__(project_dir, language)
Construct(project_dir, language) ==
    /\ object.state = "none"
    /\ object' =
         IF ~sdkAvailable
         THEN [NoObject EXCEPT !.state = "failed", !.error = "RuntimeError"]
         ELSE IF ValidateOauthToken
              THEN [state |-> "constructed", project_dir |-> project_dir,
                    language |-> language, error |-> ""]
              ELSE [NoObject EXCEPT !.state = "failed", !.error = "ValueError"]
    /\ UNCHANGED << envVars, files, pc, sdkClient, sessionOpen, response_text,
                    received, pending, outcome, raised, steps, deletedBy >>

\* What a failed write leaves in the file open(settings_file, "w") created:
\* a proper prefix of the serialization.
PartialContents == {SubSeq(JsonDump(Settings), 1, k) : k \in 0..(Len(JsonDump(Settings)) - 1)}

\* A write whose error is caught and logged, the call going on without the file.
CreateSettingsFileBestEffort(c) ==
    /\ object.state = "constructed"
    /\ pc[c] = "start"
    /\ \/ \E e \in WriteErrors :
            /\ Throw(c, "write", e)
            /\ pc' = Set(pc, c, "create_client")
            /\ UNCHANGED << files, steps, outcome >>
       \/ \E e \in DumpErrors, part \in PartialContents :
            /\ files' = Set(files, SettingsDir, File(part))
            /\ Throw(c, "write", e)
            /\ outcome' = Set(outcome, c, Raise(e))
            /\ pc' = Set(pc, c, "done")
            /\ UNCHANGED steps
       \/ /\ files' = Set(files, SettingsDir, File(JsonDump(Settings)))
          /\ pc' = Set(pc, c, "create_client")
          /\ Log(c, "written")
          /\ UNCHANGED << outcome, raised >>
    /\ UNCHANGED << envVars, object, sdkClient, sessionOpen, response_text,
                    received, pending, deletedBy >>

\* _create_settings_file, line 65 of run_analysis_query.  It is outside the
\* try block: an error here ends the call at once.
CreateSettingsFile(c) ==
    /\ object.state = "constructed"
    /\ pc[c] = "start"
    /\ \/ \E e \in WriteErrors :             \* open() raises: nothing created
            /\ Throw(c, "write", e)
            /\ outcome' = Set(outcome, c, Raise(e))
            /\ pc' = Set(pc, c, "done")
            /\ UNCHANGED << files, steps >>
       \/ \E e \in DumpErrors, part \in PartialContents :  \* json.dump / flush raises
            /\ files' = Set(files, SettingsDir, File(part))
            /\ Throw(c, "write", e)
            /\ outcome' = Set(outcome, c, Raise(e))
            /\ pc' = Set(pc, c, "done")
            /\ UNCHANGED steps
       \/ /\ files' = Set(files, SettingsDir, File(JsonDump(Settings)))
          /\ pc' = Set(pc, c, "create_client")
          /\ Log(c, "written")
          /\ UNCHANGED << outcome, raised >>
    /\ UNCHANGED << envVars, object, sdkClient, sessionOpen, response_text,
                    received, pending, deletedBy >>

\* A lookup that falls back to the default language's name.
LanguageNameOrEnglish(language) ==
    IF language \in DOMAIN LANGUAGE_NAMES THEN LANGUAGE_NAMES[language] ELSE "English"

\* LANGUAGE_NAMES.get(language, language)
LanguageName(language) ==
    IF language \in DOMAIN LANGUAGE_NAMES THEN LANGUAGE_NAMES[language] ELSE language

\* The instruction built without the test for the default language.
LanguageInstructionAlways(language) ==
    IF language # ""
    THEN <<"IMPORTANT LANGUAGE REQUIREMENT", LanguageName(language),
           "JSON keys must remain in English", LanguageName(language)>>
    ELSE <<>>

\* language_instruction of _create_client (lines 115-123): the requirement
\* names the language twice; `if self.language` is false for "".
LanguageInstruction(language) ==
    IF language # "" /\ language # "en"
    THEN <<"IMPORTANT LANGUAGE REQUIREMENT", LanguageName(language),
           "JSON keys must remain in English", LanguageName(language)>>
    ELSE <<>>

SystemPrompt(project_dir, language) ==
    <<"senior software architect", project_dir, "Read, Grep, and Glob", "valid JSON only">>
        \o LanguageInstruction(language)

ClientOptions ==
    [ built |-> TRUE,
      model |-> DEFAULT_MODEL,
      system_prompt |-> SystemPrompt(object.project_dir, object.language),
      allowed_tools |-> ALLOWED_TOOLS,
      max_turns |-> MAX_TURNS,
      cwd |-> object.project_dir,
      settings |-> SettingsDir ]

\* _create_client called before the try block, like _create_settings_file.
CreateClientOutsideTry(c) ==
    /\ pc[c] = "create_client"
    /\ \/ /\ sdkClient' = Set(sdkClient, c, ClientOptions)
          /\ pc' = Set(pc, c, "aenter")
          /\ Log(c, "constructed")
          /\ UNCHANGED << outcome, raised >>
       \/ \E e \in ConstructErrors :
            /\ Throw(c, "construct", e)
            /\ outcome' = Set(outcome, c, Raise(e))
            /\ pc' = Set(pc, c, "done")
            /\ UNCHANGED << sdkClient, steps >>
    /\ UNCHANGED << envVars, object, files, sessionOpen, response_text, received,
                    pending, deletedBy >>

\* client = self._create_client(settings_file), line 68
CreateClient(c) ==
    /\ pc[c] = "create_client"
    /\ \/ /\ sdkClient' = Set(sdkClient, c, ClientOptions)
          /\ pc' = Set(pc, c, "aenter")
          /\ Log(c, "constructed")
          /\ UNCHANGED << pending, raised >>
       \/ \E e \in ConstructErrors :
            /\ Throw(c, "construct", e)
            /\ pending' = Set(pending, c, Raise(e))
            /\ pc' = Set(pc, c, "finally")
            /\ UNCHANGED << sdkClient, steps >>
    /\ UNCHANGED << envVars, object, files, sessionOpen, response_text, received,
                    outcome, deletedBy >>

\* async with client: __aenter__, line 70
AEnter(c) ==
    /\ pc[c] = "aenter"
    /\ \/ /\ sessionOpen' = Set(sessionOpen, c, TRUE)
          /\ pc' = Set(pc, c, "query")
          /\ Log(c, "opened")
          /\ UNCHANGED << pending, raised >>
       \/ \E e \in OpenErrors :
            /\ Throw(c, "open", e)
            /\ pending' = Set(pending, c, Raise(e))
            /\ pc' = Set(pc, c, "finally")
            /\ UNCHANGED << sessionOpen, steps >>
    /\ UNCHANGED << envVars, object, files, sdkClient, response_text, received,
                    outcome, deletedBy >>

\* A failed prompt submission that is tried once more before giving up.
QueryWithRetry(c) ==
    /\ pc[c] = "query"
    /\ \/ /\ response_text' = Set(response_text, c, <<>>)
          /\ pc' = Set(pc, c, "collect")
          /\ Log(c, "submitted")
          /\ UNCHANGED << pending, raised >>
       \/ \E e \in QueryErrors :
            /\ Throw(c, "query", e)
            /\ IF raised[c] = <<>>
               THEN UNCHANGED << pending, pc >>
               ELSE /\ pending' = Set(pending, c, Raise(e))
                    /\ pc' = Set(pc, c, "aexit")
            /\ UNCHANGED << response_text, steps >>
    /\ UNCHANGED << envVars, object, files, sdkClient, sessionOpen, received,
                    outcome, deletedBy >>

\* await client.query(prompt), line 71; on success _collect_response starts
\* with response_text = "" (line 153).
Query(c) ==
    /\ pc[c] = "query"
    /\ \/ /\ response_text' = Set(response_text, c, <<>>)
          /\ pc' = Set(pc, c, "collect")
          /\ Log(c, "submitted")
          /\ UNCHANGED << pending, raised >>
       \/ \E e \in QueryErrors :
            /\ Throw(c, "query", e)
            /\ pending' = Set(pending, c, Raise(e))
            /\ pc' = Set(pc, c, "aexit")
            /\ UNCHANGED << response_text, steps >>
    /\ UNCHANGED << envVars, object, files, sdkClient, sessionOpen, received,
                    outcome, deletedBy >>

\* hasattr(content, "text")
HasText(content) == "text" \in DOMAIN content

\* for content in msg.content: if hasattr(content, "text"): response_text += content.text
RECURSIVE CollectContent(_, _)
CollectContent(text, content) ==
    IF content = <<>> THEN text
    ELSE CollectContent(
             IF HasText(Head(content)) THEN text \o Head(content).text ELSE text,
             Tail(content))

\* The loop body without the test of the message type.
CollectAnyMessage(text, msg) ==
    IF "content" \in DOMAIN msg THEN CollectContent(text, msg.content) ELSE text

\* The body of the `async for` loop, lines 156-161.
CollectMessage(text, msg) ==
    IF msg.type = "AssistantMessage" THEN CollectContent(text, msg.content) ELSE text

\* A stream error handled by returning what was accumulated so far.
ReceivePartialResult(c, msgs, max) ==
    /\ pc[c] = "collect"
    /\ \/ \E msg \in msgs :
            /\ Len(received[c]) < max
            /\ received' = Set(received, c, Append(received[c], msg))
            /\ response_text' = Set(response_text, c, CollectMessage(response_text[c], msg))
            /\ UNCHANGED << pc, pending, raised, steps >>
       \/ /\ pending' = Set(pending, c, Return(response_text[c]))
          /\ pc' = Set(pc, c, "aexit")
          /\ Log(c, "consumed")
          /\ UNCHANGED << received, response_text, raised >>
       \/ \E e \in StreamErrors :
            /\ Throw(c, "stream", e)
            /\ pending' = Set(pending, c, Return(response_text[c]))
            /\ pc' = Set(pc, c, "aexit")
            /\ UNCHANGED << received, response_text, steps >>
    /\ UNCHANGED << envVars, object, files, sdkClient, sessionOpen, outcome, deletedBy >>

\* A stream error handled by removing the descriptor at once, inside the
\* `async with` block.
ReceiveCleanupInBlock(c, msgs, max) ==
    /\ pc[c] = "collect"
    /\ \/ \E msg \in msgs :
            /\ Len(received[c]) < max
            /\ received' = Set(received, c, Append(received[c], msg))
            /\ response_text' = Set(response_text, c, CollectMessage(response_text[c], msg))
            /\ UNCHANGED << pc, pending, raised, steps, files >>
       \/ /\ pending' = Set(pending, c, Return(response_text[c]))
          /\ pc' = Set(pc, c, "aexit")
          /\ Log(c, "consumed")
          /\ UNCHANGED << received, response_text, raised, files >>
       \/ \E e \in StreamErrors :
            /\ Throw(c, "stream", e)
            /\ pending' = Set(pending, c, Raise(e))
            /\ pc' = Set(pc, c, "aexit")
            /\ files' = Set(files, SettingsDir, NoFile)
            /\ UNCHANGED << received, response_text, steps >>
    /\ UNCHANGED << envVars, object, sdkClient, sessionOpen, outcome, deletedBy >>

\* One iteration of `async for msg in client.receive_response()`, line 155:
\* the stream yields a message, ends, or raises.
Receive(c, msgs, max) ==
    /\ pc[c] = "collect"
    /\ \/ \E msg \in msgs :
            /\ Len(received[c]) < max
            /\ received' = Set(received, c, Append(received[c], msg))
            /\ response_text' = Set(response_text, c, CollectMessage(response_text[c], msg))
            /\ UNCHANGED << pc, pending, raised, steps >>
       \/ /\ pending' = Set(pending, c, Return(response_text[c]))   \* line 163
          /\ pc' = Set(pc, c, "aexit")
          /\ Log(c, "consumed")
          /\ UNCHANGED << received, response_text, raised >>
       \/ \E e \in StreamErrors :
            /\ Throw(c, "stream", e)
            /\ pending' = Set(pending, c, Raise(e))
            /\ pc' = Set(pc, c, "aexit")
            /\ UNCHANGED << received, response_text, steps >>
    /\ UNCHANGED << envVars, object, files, sdkClient, sessionOpen, outcome, deletedBy >>

\* The cleanup placed inside the `async with` block: the descriptor is removed
\* and only then the session released.
AExitAfterCleanup(c) ==
    /\ pc[c] = "aexit"
    /\ IF Exists
       THEN /\ files' = Set(files, SettingsDir, NoFile)
            /\ deletedBy' = c
            /\ steps' = [steps EXCEPT ![c] = Append(Append(@, "deleted"), "released")]
       ELSE /\ Log(c, "released")
            /\ UNCHANGED << files, deletedBy >>
    /\ sessionOpen' = Set(sessionOpen, c, FALSE)
    /\ outcome' = Set(outcome, c, pending[c])
    /\ pc' = Set(pc, c, "done")
    /\ UNCHANGED << envVars, object, sdkClient, response_text, received,
                    pending, raised >>

\* Leaving the `async with` block: __aexit__ releases the session and does not
\* suppress the exception of the body.
AExit(c) ==
    /\ pc[c] = "aexit"
    /\ sessionOpen' = Set(sessionOpen, c, FALSE)
    /\ pc' = Set(pc, c, "finally")
    /\ Log(c, "released")
    /\ UNCHANGED << envVars, object, files, sdkClient, response_text, received,
                    pending, outcome, raised, deletedBy >>

\* Cleanup on the success path only (after the return value is computed).
FinallyOnSuccessOnly(c) ==
    /\ pc[c] = "finally"
    /\ IF Exists /\ pending[c].kind = "return"
       THEN /\ files' = Set(files, SettingsDir, NoFile)
            /\ deletedBy' = c
            /\ Log(c, "deleted")
       ELSE UNCHANGED << files, deletedBy, steps >>
    /\ outcome' = Set(outcome, c, pending[c])
    /\ pc' = Set(pc, c, "done")
    /\ UNCHANGED << envVars, object, sdkClient, sessionOpen, response_text, received,
                    pending, raised >>

\* Cleanup in an `except Exception` handler and after the block, which a
\* CancelledError (a BaseException) passes by.
FinallyExceptException(c) ==
    /\ pc[c] = "finally"
    /\ IF Exists /\ pending[c] # Raise(CancelledError)
       THEN /\ files' = Set(files, SettingsDir, NoFile)
            /\ deletedBy' = c
            /\ Log(c, "deleted")
       ELSE UNCHANGED << files, deletedBy, steps >>
    /\ outcome' = Set(outcome, c, pending[c])
    /\ pc' = Set(pc, c, "done")
    /\ UNCHANGED << envVars, object, sdkClient, sessionOpen, response_text, received,
                    pending, raised >>

\* Cleanup without the existence check: unlink() of a missing file raises
\* FileNotFoundError, which replaces what the call was about to return or raise.
FinallyUnlinkUnchecked(c) ==
    /\ pc[c] = "finally"
    /\ IF Exists
       THEN /\ files' = Set(files, SettingsDir, NoFile)
            /\ deletedBy' = c
            /\ Log(c, "deleted")
            /\ outcome' = Set(outcome, c, pending[c])
            /\ UNCHANGED raised
       ELSE /\ Throw(c, "finally", "FileNotFoundError")
            /\ outcome' = Set(outcome, c, Raise("FileNotFoundError"))
            /\ UNCHANGED << files, deletedBy, steps >>
    /\ pc' = Set(pc, c, "done")
    /\ UNCHANGED << envVars, object, sdkClient, sessionOpen, response_text, received,
                    pending >>

\* finally: if settings_file.exists(): settings_file.unlink()   (lines 74-77)
\* There is no await between the check and the deletion.
Finally(c) ==
    /\ pc[c] = "finally"
    /\ IF Exists
       THEN /\ files' = Set(files, SettingsDir, NoFile)
            /\ deletedBy' = c
            /\ Log(c, "deleted")
       ELSE UNCHANGED << files, deletedBy, steps >>
    /\ outcome' = Set(outcome, c, pending[c])
    /\ pc' = Set(pc, c, "done")
    /\ UNCHANGED << envVars, object, sdkClient, sessionOpen, response_text, received,
                    pending, raised >>

\* The awaits of run_analysis_query.
SuspensionPoints == {"aenter", "query", "collect", "aexit"}

\* A cancellation that leaves the `async with` block without releasing the session.
CancelSkipsRelease(c) ==
    /\ pc[c] \in SuspensionPoints
    /\ Throw(c, pc[c], CancelledError)
    /\ pending' = Set(pending, c, Raise(CancelledError))
    /\ pc' = Set(pc, c, "finally")
    /\ UNCHANGED << envVars, object, files, sdkClient, response_text, received,
                    outcome, deletedBy, sessionOpen, steps >>

\* task.cancel(): CancelledError is raised at the await the task is suspended
\* in.  Inside the `async with` body it passes through __aexit__; raised by
\* __aenter__ or __aexit__ themselves it leaves the block directly.
Cancel(c) ==
    /\ pc[c] \in SuspensionPoints
    /\ Throw(c, pc[c], CancelledError)
    /\ pending' = Set(pending, c, Raise(CancelledError))
    /\ pc' = Set(pc, c, IF pc[c] \in {"query", "collect"} THEN "aexit" ELSE "finally")
    /\ IF pc[c] = "aexit"
       THEN /\ sessionOpen' = Set(sessionOpen, c, FALSE)
            /\ Log(c, "released")
       ELSE UNCHANGED << sessionOpen, steps >>
    /\ UNCHANGED << envVars, object, files, sdkClient, response_text, received,
                    outcome, deletedBy >>

\* ---------------------------------------------------------------- specifications
Active(c) == pc[c] \notin {"start", "done"}

InitCalls ==
    /\ files = [d \in Dirs |-> NoFile]
    /\ pc = [c \in Calls |-> "start"]
    /\ sdkClient = [c \in Calls |-> NoClient]
    /\ sessionOpen = [c \in Calls |-> FALSE]
    /\ response_text = [c \in Calls |-> <<>>]
    /\ received = [c \in Calls |-> <<>>]
    /\ pending = [c \in Calls |-> None]
    /\ outcome = [c \in Calls |-> None]
    /\ raised = [c \in Calls |-> <<>>]
    /\ steps = [c \in Calls |-> <<>>]
    /\ deletedBy = 0

\* The process before the client object is constructed.
InitProcess ==
    /\ sdkAvailable \in BOOLEAN
    /\ tokenPresent \in BOOLEAN
    /\ object = NoObject
    /\ InitCalls

\* A constructed client object: __init__ succeeded for /repo.
Init ==
    /\ sdkAvailable = TRUE
    /\ tokenPresent = TRUE
    /\ object = [state |-> "constructed", project_dir |-> "/repo",
                 language |-> "en", error |-> ""]
    /\ InitCalls

Constructing == \E d \in Dirs, l \in Languages : Construct(d, l)
Writing == \E c \in Calls : CreateSettingsFile(c)
CreatingClient == \E c \in Calls : CreateClient(c)
Opening == \E c \in Calls : AEnter(c)
Querying == \E c \in Calls : Query(c)
Collecting == \E c \in Calls : Receive(c, OverlapMessages, Len(OverlapReply))
Closing == \E c \in Calls : AExit(c)
Cleaning == \E c \in Calls : Finally(c)
Cancelling == \E c \in Calls : Cancel(c)

\* Calls of run_analysis_query on one client object, overlapping freely.
Next ==
    \/ Writing
    \/ CreatingClient
    \/ Opening
    \/ Querying
    \/ Collecting
    \/ Closing
    \/ Cleaning
    \/ Cancelling

Spec == Init /\ [][Next]_vars

\* A single call on a constructed client.
CollectingSingle == Receive(1, StreamMessages, MaxMsgs)

NextSingle ==
    \/ CreateSettingsFile(1)
    \/ CreateClient(1)
    \/ AEnter(1)
    \/ Query(1)
    \/ CollectingSingle
    \/ AExit(1)
    \/ Finally(1)
    \/ Cancel(1)

SpecSingle == Init /\ [][NextSingle]_vars

\* A single, uncancelled call that is streamed every bounded reply.
CollectingAll == Receive(1, Messages(MaxItems), MaxMsgs)

NextCollect ==
    \/ CreateSettingsFile(1)
    \/ CreateClient(1)
    \/ AEnter(1)
    \/ Query(1)
    \/ CollectingAll
    \/ AExit(1)
    \/ Finally(1)

SpecCollect == Init /\ [][NextCollect]_vars

\* Construction of the client object in every environment, followed by one
\* call of run_analysis_query (any of the calls, alone).
WritingAlone ==
    \E c \in Calls : (\A d \in Calls \ {c} : pc[d] = "start") /\ CreateSettingsFile(c)

NextConstruct ==
    \/ Constructing
    \/ WritingAlone
    \/ CreatingClient
    \/ Opening
    \/ Querying
    \/ Collecting
    \/ Closing
    \/ Cleaning
    \/ Cancelling

SpecConstruct == InitProcess /\ [][NextConstruct]_vars

\* Successive calls on the constructed client: a call starts only when no
\* other call is running.
WritingInTurn ==
    \E c \in Calls : (\A d \in Calls : ~Active(d)) /\ CreateSettingsFile(c)

NextSequential ==
    \/ WritingInTurn
    \/ CreatingClient
    \/ Opening
    \/ Querying
    \/ Collecting
    \/ Closing
    \/ Cleaning
    \/ Cancelling

SpecSequential == Init /\ [][NextSequential]_vars

\* ---------------------------------------------------------------- properties
Did(c, step) == \E i \in 1..Len(steps[c]) : steps[c][i] = step
Ended(c) == pc[c] = "done"
RaisedFirstAt(c, places) == raised[c] # <<>> /\ raised[c][1].at \in places
Cancelled(c) == \E i \in 1..Len(raised[c]) : raised[c][i].error = CancelledError
DescriptorPresent == files["/repo"].exists

\* C1: for a single call whose descriptor write succeeded, the descriptor
\* file does not exist once the call has returned or raised, whichever path
\* it took (clean completion, failed prompt submission, failed reply stream).
C1_AbsentAfterCall ==
    \A c \in Calls : (Ended(c) /\ Did(c, "written")) => ~DescriptorPresent

\* A call that failed in the reply stream after a message arrived has ended.
C1_Witness ==
    /\ Ended(1) /\ Did(1, "written")
    /\ RaisedFirstAt(1, {"stream"})
    /\ Len(received[1]) >= 1
    /\ outcome[1].kind = "raise"
    /\ ~DescriptorPresent

\* C2: for a single call the descriptor file exists, completely written, in
\* every state of the session-open window (session opened, prompt submission,
\* reply collection, until the session is released).
C2_PresentWhileSessionOpen ==
    \A c \in Calls :
        (sessionOpen[c] \/ pc[c] \in {"query", "collect", "aexit"})
            => files["/repo"] = File(JsonDump(Settings))

\* The session is open and a failed stream is about to release it.
C2_Witness ==
    /\ sessionOpen[1] /\ pc[1] = "aexit"
    /\ RaisedFirstAt(1, {"stream"})
    /\ DescriptorPresent

\* C3: overlapping calls share one descriptor path without locking; a
\* session that is open while the descriptor is missing lost it to the
\* cleanup of another call (never to its own), and such a state is reachable.
C3_DeletedByOtherCall ==
    /\ \A c, d \in Calls :
          (sdkClient[c].built /\ sdkClient[d].built)
              => sdkClient[c].settings = sdkClient[d].settings
    /\ \A c \in Calls :
          (sessionOpen[c] /\ ~DescriptorPresent)
              => (deletedBy \in Calls \ {c} /\ Ended(deletedBy))

\* One call is collecting with its session open, and the other call's cleanup
\* has removed the descriptor.
C3_Witness ==
    \E c, d \in Calls :
        /\ c # d
        /\ sessionOpen[c] /\ pc[c] \in {"query", "collect", "aexit"}
        /\ ~DescriptorPresent
        /\ deletedBy = d /\ Did(d, "deleted")

\* C4 as stated: if the prompt submission or the reply stream raises, the
\* call returns no text and its outcome is exactly that original error.
C4_OriginalErrorIsOutcome ==
    \A c \in Calls :
        (Ended(c) /\ RaisedFirstAt(c, {"query", "stream", "collect"}))
            => outcome[c] = Raise(raised[c][1].error)

\* C4 amended: if the prompt submission or the reply stream raises, the call
\* returns no text; after the cleanup has run it raises that original error
\* unchanged, unless the task is cancelled while the session is being
\* released, and then it raises the cancellation error.  Text is returned
\* only when the stream ended cleanly, and it is the accumulated text.
C4_NoPartialResult ==
    \A c \in Calls :
        /\ (Ended(c) /\ RaisedFirstAt(c, {"query", "stream", "collect"}))
              => /\ outcome[c].kind = "raise"
                 /\ Did(c, "deleted") /\ ~DescriptorPresent
                 /\ IF Len(raised[c]) = 1
                    THEN outcome[c] = Raise(raised[c][1].error)
                    ELSE /\ raised[c][Len(raised[c])] = RaisedAt("aexit", CancelledError)
                         /\ outcome[c] = Raise(CancelledError)
        /\ (Ended(c) /\ outcome[c].kind = "return")
              => /\ Did(c, "consumed") /\ raised[c] = <<>>
                 /\ outcome[c] = Return(response_text[c])

\* The stream failed after text had been accumulated, and the call raised
\* the stream's error.
C4_Witness ==
    /\ Ended(1)
    /\ raised[1] = <<RaisedAt("stream", "MaxTurnsError")>>
    /\ response_text[1] # <<>>
    /\ outcome[1] = Raise("MaxTurnsError")

\* C5: if the task is cancelled at a suspension point after the descriptor
\* was written (session open, prompt submission, a streamed message, session
\* close), the cleanup still runs before the call ends and the descriptor
\* file is absent afterwards.
C5_CleanupOnCancel ==
    \A c \in Calls :
        /\ Cancelled(c) => (Did(c, "written") /\ pc[c] \in {"aexit", "finally", "done"})
        /\ (Ended(c) /\ Cancelled(c))
              => /\ Did(c, "deleted")
                 /\ ~DescriptorPresent
                 /\ outcome[c] = Raise(CancelledError)

\* A call cancelled while it awaited a streamed message has ended.
C5_Witness ==
    /\ Ended(1)
    /\ raised[1] = <<RaisedAt("collect", CancelledError)>>
    /\ Len(received[1]) >= 1
    /\ ~DescriptorPresent

\* C6: if client construction or opening the session raises after the
\* descriptor was written, the descriptor file is deleted, no prompt is
\* submitted in that call, and the error propagates to the caller.
C6_SetupFailure ==
    \A c \in Calls :
        RaisedFirstAt(c, {"construct", "open", "aenter"})
            => /\ Did(c, "written")
               /\ pc[c] \in {"finally", "done"}
               /\ ~Did(c, "submitted") /\ ~sessionOpen[c]
               /\ Ended(c) => /\ Did(c, "deleted") /\ ~DescriptorPresent
                              /\ outcome[c] = Raise(raised[c][1].error)

\* Model resolution failed in _create_client and the call has ended.
C6_Witness ==
    /\ Ended(1)
    /\ raised[1] = <<RaisedAt("construct", "ModelResolveError")>>
    /\ outcome[1] = Raise("ModelResolveError")
    /\ ~DescriptorPresent

\* The call created the descriptor file: open(settings_file, "w") succeeded.
CreatedFile(c) ==
    Did(c, "written") \/ (RaisedFirstAt(c, {"write"}) /\ raised[c][1].error \in DumpErrors)

\* C7: whenever a call has created the descriptor file, also when the write
\* then failed part-way, the file no longer exists once the call has ended.
C7_ReleasedOnAllExits ==
    \A c \in Calls : (Ended(c) /\ CreatedFile(c)) => ~DescriptorPresent

\* C8: when the credential check fails, construction fails for every project
\* directory and language: no client object is obtained, no descriptor file
\* is written, no agent session is created, and no call of
\* run_analysis_query gets anywhere.
C8_NoCredentialNoObject ==
    ~tokenPresent
        => /\ object.state # "constructed"
           /\ object.project_dir = "" /\ object.language = ""
           /\ (object.state = "failed" /\ sdkAvailable) => object.error = "ValueError"
           /\ \A d \in Dirs : files[d] = NoFile
           /\ \A c \in Calls :
                 /\ pc[c] = "start" /\ steps[c] = <<>>
                 /\ ~sdkClient[c].built /\ ~sessionOpen[c]
                 /\ outcome[c] = None
           /\ ~ENABLED WritingAlone

\* The SDK is installed, the credential is missing, and construction failed
\* with the credential error.
C8_Witness ==
    /\ sdkAvailable /\ ~tokenPresent
    /\ object.state = "failed" /\ object.error = "ValueError"

\* The content items of the assistant messages of a stream, in arrival order.
RECURSIVE AssistantItems(_)
AssistantItems(stream) ==
    IF stream = <<>> THEN <<>>
    ELSE (IF Head(stream).type = "AssistantMessage" THEN Head(stream).content ELSE <<>>)
             \o AssistantItems(Tail(stream))

\* The texts of a sequence of text blocks, joined.
RECURSIVE Joined(_)
Joined(blocks) ==
    IF blocks = <<>> THEN <<>> ELSE Head(blocks).text \o Joined(Tail(blocks))

IsTextItem(item) == item \in {TextBlock(t) : t \in Texts}

\* C9: the text _collect_response returns for a finite stream is the
\* concatenation, in arrival order, of the texts of exactly the content items
\* that carry a text attribute inside assistant messages; other messages and
\* items without text contribute nothing.
C9_CollectedText ==
    \A c \in Calls :
        /\ pc[c] = "collect"
              => response_text[c] = Joined(SelectSeq(AssistantItems(received[c]), IsTextItem))
        /\ pending[c].kind = "return"
              => pending[c].val = Joined(SelectSeq(AssistantItems(received[c]), IsTextItem))
        /\ outcome[c].kind = "return"
              => outcome[c].val = Joined(SelectSeq(AssistantItems(received[c]), IsTextItem))

\* A user message carrying text and an assistant message with a tool block
\* between two text blocks were streamed; the call returned the two texts.
C9_Witness ==
    /\ Ended(1)
    /\ Len(received[1]) = 2
    /\ received[1][1] = UserMessage
    /\ received[1][2] = AssistantMessage(<<TextBlock(<<"b", "c">>), TextBlock(<<"a">>)>>)
    /\ outcome[1] = Return(<<"b", "c", "a">>)

\* The steps of run_analysis_query in their order.
StepOrder ==
    <<"written", "constructed", "opened", "submitted", "consumed", "released", "deleted">>
Rank(step) == CHOOSE i \in 1..Len(StepOrder) : StepOrder[i] = step
Requires(c, step, earlier) == Did(c, step) => Did(c, earlier)

\* C10: within one call the steps happen only in the order descriptor
\* written, client constructed, session opened, prompt submitted, reply
\* consumed, session released, descriptor deleted, each after its predecessor
\* completed; the client is never constructed before the descriptor is on
\* disk, and the session is released before the descriptor is deleted.
C10_StepOrder ==
    \A c \in Calls :
        /\ \A i, j \in 1..Len(steps[c]) : i < j => Rank(steps[c][i]) < Rank(steps[c][j])
        /\ Requires(c, "constructed", "written")
        /\ Requires(c, "opened", "constructed")
        /\ Requires(c, "submitted", "opened")
        /\ Requires(c, "consumed", "submitted")
        /\ Requires(c, "released", "opened")
        /\ Requires(c, "deleted", "written")
        /\ (Did(c, "deleted") /\ Did(c, "opened")) => Did(c, "released")
        /\ sdkClient[c].built = Did(c, "constructed")
        /\ (pc[c] = "create_client" \/ (Did(c, "constructed") /\ ~Did(c, "deleted")))
              => DescriptorPresent
        /\ sessionOpen[c] = (Did(c, "opened") /\ ~Did(c, "released"))
        /\ Did(c, "deleted") => (~sessionOpen[c] /\ Ended(c))

\* A call went through all seven steps.
C10_Witness ==
    /\ Ended(1)
    /\ steps[1] = StepOrder
    /\ outcome[1].kind = "return"

\* How often a call completed a step, and how often an operation raised.
TimesDone(c, step) == Cardinality({i \in 1..Len(steps[c]) : steps[c][i] = step})
TimesRaised(c, places) == Cardinality({i \in 1..Len(raised[c]) : raised[c][i].at \in places})
\* How often a call executed an operation: the executions that completed and
\* those that raised.
Executions(c, step, places) == TimesDone(c, step) + TimesRaised(c, places)

\* C11: there is no local retry.  In one call the descriptor is written at
\* most once, the session is opened at most once and the prompt is submitted
\* at most once; after any failure, the agent's turn-limit error included, the
\* call only leaves (session release, cleanup) and executes no step again; a
\* call that opened its session executes the prompt submission exactly once.
C11_NoRetry ==
    \A c \in Calls :
        /\ Executions(c, "written", {"write"}) <= 1
        /\ Executions(c, "constructed", {"construct"}) <= 1
        /\ Executions(c, "opened", {"open", "aenter"}) <= 1
        /\ Executions(c, "submitted", {"query"}) <= 1
        /\ TimesDone(c, "consumed") + TimesRaised(c, {"stream", "collect"}) <= 1
        /\ \A i \in 1..Len(steps[c]) : TimesDone(c, steps[c][i]) = 1
        /\ raised[c] # <<>>
              => /\ pc[c] \in {"aexit", "finally", "done"}
                 /\ Len(raised[c]) <= 2
                 /\ Len(raised[c]) = 2 => raised[c][2] = RaisedAt("aexit", CancelledError)
                 /\ Ended(c) => outcome[c].kind = "raise"
        /\ (Did(c, "opened") /\ pc[c] # "query")
              => Executions(c, "submitted", {"query"}) = 1

\* The agent signalled the exceeded turn limit in the reply stream; the call
\* ended with that error after one submission.
C11_Witness ==
    /\ Ended(1)
    /\ raised[1] = <<RaisedAt("stream", "MaxTurnsError")>>
    /\ steps[1] = <<"written", "constructed", "opened", "submitted", "released", "deleted">>
    /\ outcome[1] = Raise("MaxTurnsError")

\* The language-requirement clause in a system prompt, and the names it gives.
ClauseAt(prompt) == {i \in 1..Len(prompt) : prompt[i] = "IMPORTANT LANGUAGE REQUIREMENT"}
HasClause(prompt) == ClauseAt(prompt) # {}
ClauseNames(prompt) ==
    {prompt[j] : j \in {k \in 1..Len(prompt) : \E i \in ClauseAt(prompt) : k \in {i + 1, i + 3}}}

\* The display name a language code stands for.
DisplayName(code) ==
    CASE code = "en" -> "English"
      [] code = "ko" -> "Korean"
      [] code = "fr" -> "French"
      [] OTHER -> code

\* C12 as stated: for every language code other than "en", the empty string
\* included, the system prompt built by _create_client contains the
\* language-requirement clause naming the display name; for "en" it contains
\* no such clause.
C12_ClauseForEveryOtherCode ==
    \A c \in Calls :
        sdkClient[c].built
            => IF object.language # "en"
               THEN ClauseNames(sdkClient[c].system_prompt) = {DisplayName(object.language)}
               ELSE ~HasClause(sdkClient[c].system_prompt)

\* C12 amended: for every non-empty language code other than "en",
\* unrecognized codes included, the system prompt contains the
\* language-requirement clause naming the display name; for "en" and for the
\* empty string it contains no such clause.
C12_ClauseForNonEmptyOtherCode ==
    \A c \in Calls :
        sdkClient[c].built
            => IF object.language \notin {"en", ""}
               THEN /\ Cardinality(ClauseAt(sdkClient[c].system_prompt)) = 1
                    /\ ClauseNames(sdkClient[c].system_prompt) = {DisplayName(object.language)}
               ELSE ~HasClause(sdkClient[c].system_prompt)

\* A client was built for the language code "ko", with the clause naming Korean.
C12_Witness ==
    \E c \in Calls :
        /\ sdkClient[c].built
        /\ object.language = "ko"
        /\ HasClause(sdkClient[c].system_prompt)
        /\ "Korean" \in ClauseNames(sdkClient[c].system_prompt)

\* C13: for a language code that is no key of the mapping (en, ko, fr) the
\* display name used in the system prompt is the raw code and building the
\* prompt does not fail; for a mapped code it is the mapped name.
C13_DisplayName ==
    \A c \in Calls :
        /\ (sdkClient[c].built /\ HasClause(sdkClient[c].system_prompt))
              => \A n \in ClauseNames(sdkClient[c].system_prompt) :
                    IF object.language \in {"en", "ko", "fr"}
                    THEN n = DisplayName(object.language) /\ n # object.language
                    ELSE n = object.language
        /\ (pc[c] = "create_client" /\ object.language \notin {"en", "ko", "fr"})
              => ENABLED (CreateClient(c) /\ pc'[c] = "aenter")

\* A client was built for the unrecognized code "xx"; its prompt names "xx".
C13_Witness ==
    \E c \in Calls :
        /\ sdkClient[c].built
        /\ object.language = "xx"
        /\ ClauseNames(sdkClient[c].system_prompt) = {"xx"}

\* C14: if writing the descriptor fails because the project directory is not
\* writable, run_analysis_query raises that filesystem error uncaught, and in
\* that call no client is constructed, no session is opened and no prompt is
\* submitted.
C14_UnwritableDirectory ==
    \A c \in Calls :
        (RaisedFirstAt(c, {"write"}) /\ raised[c][1].error \in WriteErrors)
            => /\ Ended(c)
               /\ raised[c] = <<RaisedAt("write", raised[c][1].error)>>
               /\ outcome[c] = Raise(raised[c][1].error)
               /\ steps[c] = <<>>
               /\ ~sdkClient[c].built /\ ~sessionOpen[c]
               /\ pending[c] = None /\ received[c] = <<>>

\* open() raised PermissionError and the call ended with it.
C14_Witness ==
    /\ Ended(1)
    /\ raised[1] = <<RaisedAt("write", "PermissionError")>>
    /\ outcome[1] = Raise("PermissionError")
    /\ ~DescriptorPresent

\* The descriptor of the external interface, as it is serialized.
FixedDescriptor ==
    << <<"sandbox", [enabled |-> TRUE, autoAllowBashIfSandboxed |-> TRUE]>>,
       <<"permissions",
         [defaultMode |-> "acceptEdits",
          allow |-> <<"Read(./**)", "Glob(./**)", "Grep(./**)">>]>> >>

C16_AbsentWhenAllEnded ==
    (\A c \in Calls : Did(c, "written") => Ended(c)) => ~DescriptorPresent

\* Cleanup raised no error in a call.
CleanupQuiet(c) ==
    /\ \A i \in 1..Len(raised[c]) :
          raised[c][i].at # "finally" /\ raised[c][i].error # "FileNotFoundError"
    /\ outcome[c] # Raise("FileNotFoundError")

\* A call that wrote the descriptor and ended without deleting it found it
\* removed by the cleanup of another call.
SkippedDeletion(c) == Ended(c) /\ Did(c, "written") /\ ~Did(c, "deleted")

\* C17 as stated: with cooperative tasks cleanup never deletes a missing
\* file, a call that finds the descriptor removed by another call skips the
\* deletion, cleanup raises no missing-file error, and a call whose stream
\* ended cleanly always returns its accumulated text.
C17_CleanStreamAlwaysReturns ==
    \A c \in Calls :
        /\ CleanupQuiet(c)
        /\ SkippedDeletion(c) => (deletedBy \in Calls \ {c} /\ Did(deletedBy, "deleted"))
        /\ (Ended(c) /\ Did(c, "consumed")) => outcome[c] = Return(response_text[c])

\* C17 amended: with cooperative tasks cleanup never deletes a missing file,
\* a call that finds the descriptor removed by another call skips the
\* deletion, cleanup raises no missing-file error, and a call whose stream
\* ended cleanly returns its accumulated text unless the task is cancelled
\* while the session is being released, and then it raises the cancellation
\* error.
C17_CleanupNeverFails ==
    \A c \in Calls :
        /\ CleanupQuiet(c)
        /\ TimesDone(c, "deleted") <= 1
        /\ SkippedDeletion(c) => (deletedBy \in Calls \ {c} /\ Did(deletedBy, "deleted"))
        /\ (Ended(c) /\ Did(c, "consumed"))
              => IF raised[c] = <<>>
                 THEN outcome[c] = Return(response_text[c])
                 ELSE /\ raised[c] = <<RaisedAt("aexit", CancelledError)>>
                      /\ outcome[c] = Raise(CancelledError)

\* A call's stream ended cleanly, another call's cleanup removed the
\* descriptor first, and the call skipped the deletion and returned its text.
C17_Witness ==
    \E c, d \in Calls :
        /\ c # d
        /\ SkippedDeletion(c) /\ Did(c, "consumed")
        /\ deletedBy = d /\ Did(d, "deleted")
        /\ outcome[c] = Return(<<"a">>)

\* C18: successive calls on the same client object are independent: a call
\* leaves the client's project directory and language unchanged, every call
\* writes the descriptor anew and starts with an empty accumulator, the
\* descriptor is absent between calls, and the text a call returns consists
\* only of segments of its own reply stream, whether earlier calls succeeded
\* or failed.
C18_SuccessiveCallsIndependent ==
    /\ object = [state |-> "constructed", project_dir |-> "/repo",
                 language |-> "en", error |-> ""]
    /\ (\A c \in Calls : ~Active(c)) => ~DescriptorPresent
    /\ \A c \in Calls :
          /\ pc[c] \in {"create_client", "aenter", "query", "collect", "aexit"}
                => files["/repo"] = File(FixedDescriptor)
          /\ (pc[c] = "collect" /\ received[c] = <<>>) => response_text[c] = <<>>
          /\ outcome[c].kind = "return"
                => outcome[c].val = Joined(SelectSeq(AssistantItems(received[c]), IsTextItem))

====
